---- MODULE Spec2Model ----
(***************************************************************************)
(* Caption availability resolution and transcript extraction of the        *)
(* youtube-hybrid-mcp server (src/index.ts): the get_subtitles tool.       *)
(*                                                                         *)
(* Text is modelled character by character: a string is a sequence of      *)
(* one-character strings, so that split, includes, trim, parseInt,         *)
(* parseFloat and padStart are computed as the code computes them.         *)
(***************************************************************************)
EXTENDS Integers, Sequences, FiniteSets, TLC

(***************************************************************************)
(* String primitives of the JavaScript runtime used by src/index.ts.       *)
(***************************************************************************)
NL == "\n"

IsSpace(c) == c \in {" ", "\t", "\r", NL}

IsDigit(c) == c \in {"0", "1", "2", "3", "4", "5", "6", "7", "8", "9"}

DigitVal(c) ==
  CASE c = "0" -> 0 [] c = "1" -> 1 [] c = "2" -> 2 [] c = "3" -> 3
    [] c = "4" -> 4 [] c = "5" -> 5 [] c = "6" -> 6 [] c = "7" -> 7
    [] c = "8" -> 8 [] c = "9" -> 9

DigitChar(n) == <<"0", "1", "2", "3", "4", "5", "6", "7", "8", "9">>[n + 1]

SetMin(S) == CHOOSE x \in S : \A y \in S : x <= y

SetMax(S) == CHOOSE x \in S : \A y \in S : x >= y

\* String.prototype.includes
Includes(s, sub) ==
  \E i \in 1..(Len(s) - Len(sub) + 1) : SubSeq(s, i, i + Len(sub) - 1) = sub

\* String.prototype.startsWith
StartsWith(s, pre) == Len(s) >= Len(pre) /\ SubSeq(s, 1, Len(pre)) = pre

\* String.prototype.trim
Trim(s) ==
  LET keep == {i \in 1..Len(s) : ~IsSpace(s[i])}
  IN  IF keep = {} THEN <<>> ELSE SubSeq(s, SetMin(keep), SetMax(keep))

\* String.prototype.split with a non-empty string separator
RECURSIVE Split(_, _)
Split(s, sep) ==
  LET hits == {i \in 1..(Len(s) - Len(sep) + 1) : SubSeq(s, i, i + Len(sep) - 1) = sep}
  IN  IF hits = {} THEN <<s>>
      ELSE LET i == SetMin(hits)
           IN  <<SubSeq(s, 1, i - 1)>> \o Split(SubSeq(s, i + Len(sep), Len(s)), sep)

\* line.split(/\s+/)[0]: the text before the first run of white space
FirstField(line) ==
  LET ws == {i \in 1..Len(line) : IsSpace(line[i])}
  IN  IF ws = {} THEN line ELSE SubSeq(line, 1, SetMin(ws) - 1)

\* /^\d+$/
AllDigits(s) == Len(s) >= 1 /\ \A i \in 1..Len(s) : IsDigit(s[i])

\* lines.join('\n'), used to build the texts the external tools print
RECURSIVE JoinLines(_)
JoinLines(ls) ==
  IF ls = <<>> THEN <<>>
  ELSE IF Len(ls) = 1 THEN ls[1]
  ELSE ls[1] \o <<NL>> \o JoinLines(Tail(ls))

\* Array.prototype.includes
Member(seq, x) == \E i \in 1..Len(seq) : seq[i] = x

(***************************************************************************)
(* checkSubtitlesAvailability: the scan of the lister's output.            *)
(***************************************************************************)
ScanStart ==
  [inSubsSection |-> FALSE, inCaptionsSection |-> FALSE,
   availableLanguages |-> <<>>, broke |-> FALSE]

\* the manual-subtitles branch of the loop body (lines 454-460)
SubsAccepts(line) ==
  LET lang == Trim(FirstField(line))
  IN  /\ Includes(line, <<":">>)
      /\ lang # <<>>
      /\ lang # <<"L", "a", "n", "g", "u", "a", "g", "e">>
      /\ lang # <<"N", "a", "m", "e">>
      /\ Len(lang) = 2

\* the automatic-captions branch of the loop body (lines 461-467)
CaptionsAccepts(line) ==
  LET lang == Trim(FirstField(line))
  IN  /\ ~Includes(line, <<"A", "v", "a", "i", "l", "a", "b", "l", "e">>)
      /\ Trim(line) # <<>>
      /\ ~Includes(line, <<"L", "a", "n", "g", "u", "a", "g", "e">>)
      /\ lang # <<>>
      /\ Len(lang) >= 2
      /\ Len(lang) <= 5

\* one iteration of the for loop over the lines (lines 440-468)
ScanLine(st, line) ==
  IF Includes(line, <<"A", "v", "a", "i", "l", "a", "b", "l", "e", " ", "s", "u", "b", "t", "i", "t", "l", "e", "s">>)
    THEN [st EXCEPT !.inSubsSection = TRUE, !.inCaptionsSection = FALSE]
  ELSE IF Includes(line, <<"A", "v", "a", "i", "l", "a", "b", "l", "e", " ", "a", "u", "t", "o", "m", "a", "t", "i", "c", " ", "c", "a", "p", "t", "i", "o", "n", "s">>)
    THEN [st EXCEPT !.inCaptionsSection = TRUE, !.inSubsSection = FALSE]
  ELSE IF (st.inSubsSection \/ st.inCaptionsSection) /\ Trim(line) = <<>>
    THEN [st EXCEPT !.broke = TRUE]
  ELSE LET lang == Trim(FirstField(line))
           a1 == IF st.inSubsSection /\ SubsAccepts(line)
                   THEN Append(st.availableLanguages, lang)
                   ELSE st.availableLanguages
           a2 == IF st.inCaptionsSection /\ CaptionsAccepts(line)
                   THEN Append(a1, lang)
                   ELSE a1
       IN  [st EXCEPT !.availableLanguages = a2]

\* the whole loop: stops at the first break or at the end of the lines
RECURSIVE ScanFrom(_, _, _)
ScanFrom(st, lines, i) ==
  IF i > Len(lines) \/ st.broke THEN st
  ELSE ScanFrom(ScanLine(st, lines[i]), lines, i + 1)

\* a resolve that parses the output whatever the exit status
ResolveCatalog_IgnoreExit(code, langs, language) ==
  [hasSubtitles |-> Member(langs, language), availableLanguages |-> langs]

\* lines 470-480: the catalog for the accepted tokens, empty on a non-zero exit
ResolveCatalog(code, langs, language) ==
  IF code = 0
    THEN [hasSubtitles |-> Member(langs, language), availableLanguages |-> langs]
    ELSE [hasSubtitles |-> FALSE, availableLanguages |-> <<>>]

\* the value the 'close' handler resolves with (lines 432-481)
OnListerClose(code, output, language) ==
  ResolveCatalog(code, ScanFrom(ScanStart, Split(output, <<NL>>), 1).availableLanguages, language)

\* the value the 'error' handler resolves with (lines 483-488)
OnListerError == [hasSubtitles |-> FALSE, availableLanguages |-> <<>>]

(***************************************************************************)
(* Numbers.  timeToSeconds returns seconds as a double; the model keeps    *)
(* a value in seconds as its exact count of thousandths.  The products     *)
(* startTime * 1000 and endTime * 1000 (lines 357-358) are doubles that    *)
(* need not be integers: Ms(T) keeps the exact millisecond count T and     *)
(* the sign of the IEEE-754 rounding error of the product.                 *)
(***************************************************************************)
\* thousandths T = HH:MM:SS.mmm whose product is below T:
\*   (0*3600 + 0*60 + 1.001) * 1000 = 1000.9999999999999
\*   (0*3600 + 2*60 + 8.003) * 1000 = 128002.99999999999
\*   (0*3600 + 2*60 + 8.004) * 1000 = 128003.99999999999
RoundsBelow == {1001, 128003, 128004}

\* thousandths whose product is above T:
\*   (0*3600 + 2*60 + 8.002) * 1000 = 128002.00000000001
RoundsAbove == {128002}

\* thousandths with a fraction whose product is exactly T
RoundsExact == {3500}

\* the double x * 1000 for x = T / 1000 seconds; whole seconds are exact
Ms(T) ==
  [ms |-> T,
   eps |-> IF T % 1000 = 0 THEN 0
           ELSE CASE T \in RoundsBelow -> 0 - 1
                  [] T \in RoundsAbove -> 1
                  [] T \in RoundsExact -> 0]

\* Math.floor of a product
Floor(x) == IF x.eps < 0 THEN x.ms - 1 ELSE x.ms

\* the leading run of digits of s, as a pair <<value, length>>
RECURSIVE DigitRun(_, _, _)
DigitRun(s, i, acc) ==
  IF i > Len(s) \/ ~IsDigit(s[i]) THEN <<acc, i - 1>>
  ELSE DigitRun(s, i + 1, acc * 10 + DigitVal(s[i]))

\* the text after the leading white space
SkipSpace(s) ==
  LET keep == {i \in 1..Len(s) : ~IsSpace(s[i])}
  IN  IF keep = {} THEN <<>> ELSE SubSeq(s, SetMin(keep), Len(s))

\* the value undefined, which is no string
Undefined == <<"undefined">>

\* parseInt(s) || 0 for an unsigned field; undefined and NaN give 0
ParseIntOr0(s) ==
  IF s = Undefined THEN 0 ELSE DigitRun(SkipSpace(s), 1, 0)[1]

\* (parseFloat(s) || 0) * 1000 exactly, for an unsigned field with at most
\* three fractional digits
ParseFloatOr0(s) ==
  IF s = Undefined THEN 0
  ELSE LET t     == SkipSpace(s)
           whole == DigitRun(t, 1, 0)
           rest  == SubSeq(t, whole[2] + 1, Len(t))
           frac  == IF rest # <<>> /\ rest[1] = "."
                      THEN DigitRun(SubSeq(rest, 2, Len(rest)), 1, 0)
                      ELSE <<0, 0>>
           scale == CASE frac[2] = 0 -> 0 [] frac[2] = 1 -> 100
                      [] frac[2] = 2 -> 10 [] frac[2] = 3 -> 1
       IN  whole[1] * 1000 + frac[1] * scale

\* parts[i] of an array, undefined past its end
At(parts, i) == IF i <= Len(parts) THEN parts[i] ELSE Undefined

\* timeToSeconds (lines 664-670), in thousandths of a second
timeToSeconds(time) ==
  LET parts   == Split(time, <<":">>)
      hours   == ParseIntOr0(At(parts, 1))
      minutes == ParseIntOr0(At(parts, 2))
      seconds == ParseFloatOr0(At(parts, 3))
  IN  (hours * 3600 + minutes * 60) * 1000 + seconds

\* Number.prototype.toString of a natural number
RECURSIVE NumToString(_)
NumToString(n) ==
  IF n < 10 THEN <<DigitChar(n)>> ELSE NumToString(n \div 10) \o <<DigitChar(n % 10)>>

\* String.prototype.padStart(width, '0')
RECURSIVE PadStart(_, _)
PadStart(s, width) == IF Len(s) >= width THEN s ELSE PadStart(<<"0">> \o s, width)

\* formatTime (lines 672-684): the hours field only when hours > 0
formatTime(milliseconds) ==
  LET totalSeconds == Floor(milliseconds) \div 1000
      hours   == totalSeconds \div 3600
      minutes == (totalSeconds % 3600) \div 60
      seconds == totalSeconds % 60
      ms      == Floor(milliseconds) % 1000
      tail    == PadStart(NumToString(minutes), 2) \o <<":">> \o PadStart(NumToString(seconds), 2)
                   \o <<".">> \o PadStart(NumToString(ms), 3)
  IN  IF hours > 0 THEN PadStart(NumToString(hours), 2) \o <<":">> \o tail ELSE tail

\* a serializer timestamp that drops the hours field as formatTime does
formatVTTTime_ShortForm(milliseconds) == formatTime(milliseconds)

\* formatVTTTime (lines 702-710): always with the hours field
formatVTTTime(milliseconds) ==
  LET totalSeconds == Floor(milliseconds) \div 1000
      hours   == totalSeconds \div 3600
      minutes == (totalSeconds % 3600) \div 60
      seconds == totalSeconds % 60
      ms      == Floor(milliseconds) % 1000
  IN  PadStart(NumToString(hours), 2) \o <<":">> \o PadStart(NumToString(minutes), 2) \o <<":">>
        \o PadStart(NumToString(seconds), 2) \o <<".">> \o PadStart(NumToString(ms), 3)

(***************************************************************************)
(* The VTT line scanner of getSubtitles (lines 343-374).                   *)
(***************************************************************************)
\* currentItem is null (no cue open) or holds the open cue
Null == <<>>

Open(cue) == <<cue>>

ParseStart == [transcript |-> <<>>, currentItem |-> Null, thrown |-> FALSE]

\* the cue opened by a timing line (lines 353-367); duration is in seconds
\* (thousandths), offset and endTime are in milliseconds
NewCue(start, end) ==
  LET startTime == timeToSeconds(start)
      endTime   == timeToSeconds(end)
      duration  == endTime - startTime
      offset    == Ms(startTime)
      endOffset == Ms(endTime)
  IN  [text |-> <<>>,
       duration |-> duration,
       offset |-> offset,
       endTime |-> endOffset,
       startTimeFormatted |-> formatTime(offset),
       endTimeFormatted |-> formatTime(endOffset)]

\* the condition under which a line is added to the open cue (line 368)
IsTextLine(line) ==
  /\ Trim(line) # <<>>
  /\ ~StartsWith(line, <<"W", "E", "B", "V", "T", "T">>)
  /\ ~AllDigits(line)

\* one iteration of the for loop over the lines (lines 348-371); a timing
\* line without the separator ' --> ' leaves end undefined, and
\* timeToSeconds(undefined) raises a TypeError
ParseLine(st, line) ==
  IF Includes(line, <<"-", "-", ">">>)
    THEN LET fields == Split(line, <<" ", "-", "-", ">", " ">>)
             closed == IF st.currentItem # Null
                         THEN Append(st.transcript, st.currentItem[1])
                         ELSE st.transcript
         IN  IF Len(fields) < 2
               THEN [st EXCEPT !.transcript = closed, !.thrown = TRUE]
               ELSE [st EXCEPT !.transcript = closed,
                               !.currentItem = Open(NewCue(fields[1], fields[2]))]
  ELSE IF st.currentItem # Null /\ IsTextLine(line)
    THEN [st EXCEPT !.currentItem[1].text = @ \o line \o <<" ">>]
  ELSE st

RECURSIVE ParseFrom(_, _, _)
ParseFrom(st, lines, i) ==
  IF i > Len(lines) \/ st.thrown THEN st
  ELSE ParseFrom(ParseLine(st, lines[i]), lines, i + 1)

\* the flush after the loop (lines 372-374)
Flush(st) ==
  IF st.currentItem # Null
    THEN [st EXCEPT !.transcript = Append(@, st.currentItem[1]), !.currentItem = Null]
    ELSE st

\* lines 344-374: the transcript of a payload, or thrown
ParseVTT(vttContent) ==
  LET st == ParseFrom(ParseStart, Split(vttContent, <<NL>>), 1)
  IN  IF st.thrown THEN st ELSE Flush(st)

(***************************************************************************)
(* generateVTTContent (lines 686-700).                                     *)
(***************************************************************************)
\* the text one cue contributes (lines 691-696)
CueBlock(item, index) ==
  NumToString(index + 1) \o <<NL>>
    \o formatVTTTime(item.offset) \o <<" ", "-", "-", ">", " ">> \o formatVTTTime(item.endTime) \o <<NL>>
    \o Trim(item.text) \o <<NL, NL>>

RECURSIVE CueBlocks(_, _)
CueBlocks(transcript, index) ==
  IF index >= Len(transcript) THEN <<>>
  ELSE CueBlock(transcript[index + 1], index) \o CueBlocks(transcript, index + 1)

generateVTTContent(transcript) == <<"W", "E", "B", "V", "T", "T", "\n", "\n">> \o CueBlocks(transcript, 0)

(***************************************************************************)
(* Inputs of the model.                                                    *)
(***************************************************************************)
\* longest lister output of an invocation, in lines
MaxListingLines == 3

\* longest lister output of the line-by-line scan, in lines
MaxScanLines == 4

\* longest timed-text payload of the round-trip specification, in lines
MaxVttLines == 3

\* parse/serialize rounds of the round-trip specification
MaxRounds == 3

RECURSIVE SeqsUpTo(_, _)
SeqsUpTo(S, n) ==
  IF n = 0 THEN {<<>>}
  ELSE LET shorter == SeqsUpTo(S, n - 1)
       IN  shorter \cup {Append(s, x) : s \in {t \in shorter : Len(t) = n - 1}, x \in S}

VideoIds == {<<"a", "b", "c">>}

Languages == {<<"e", "n">>, <<"f", "r">>}

\* lines the lister may print
CatLines ==
  {<<"A", "v", "a", "i", "l", "a", "b", "l", "e", " ", "s", "u", "b", "t", "i", "t", "l", "e", "s">>,
   <<"A", "v", "a", "i", "l", "a", "b", "l", "e", " ", "a", "u", "t", "o", "m", "a", "t", "i", "c", " ", "c", "a", "p", "t", "i", "o", "n", "s">>,
   <<"L", "a", "n", "g", "u", "a", "g", "e", " ", "N", "a", "m", "e">>,
   <<"e", "n", " ", " ", " ", " ", "E", "n", "g", "l", "i", "s", "h", " ", " ", " ", " ", "v", "t", "t", ",", " ", "s", "r", "t">>,
   <<"f", "r", " ", " ", "N", "a", "m", "e", ":", " ", "F", "r", "e", "n", "c", "h">>,
   <<"e", "n", "-", "U", "S", " ", " ", " ", "E", "n", "g", "l", "i", "s", "h", " ", "(", "a", "u", "t", "o", ")">>,
   <<>>}

\* lines the lister prints in the invocations of the model
CallLines ==
  {<<"A", "v", "a", "i", "l", "a", "b", "l", "e", " ", "s", "u", "b", "t", "i", "t", "l", "e", "s">>,
   <<"A", "v", "a", "i", "l", "a", "b", "l", "e", " ", "a", "u", "t", "o", "m", "a", "t", "i", "c", " ", "c", "a", "p", "t", "i", "o", "n", "s">>,
   <<"e", "n", " ", " ", " ", " ", "E", "n", "g", "l", "i", "s", "h", " ", " ", " ", " ", "v", "t", "t", ",", " ", "s", "r", "t">>,
   <<"f", "r", " ", " ", "N", "a", "m", "e", ":", " ", "F", "r", "e", "n", "c", "h">>,
   <<>>}

Listings == {JoinLines(ls) : ls \in SeqsUpTo(CallLines, MaxListingLines)}

\* values of Date.now() when the temp base is named
Clock == {1}

\* exit codes of the external tools
ExitCodes == {0, 1}

\* payloads the downloader may leave in a file; the empty payload is an
\* empty file
FileContents ==
  {<<>>,
   <<"W", "E", "B", "V", "T", "T", "\n", "\n", "1", "\n", "0", "0", ":", "0", "0", ":", "0", "1", ".", "0", "0", "0", " ", "-", "-", ">", " ", "0", "0", ":", "0", "0", ":", "0", "3", ".", "5", "0", "0", "\n", "H", "e", "l", "l", "o", " ", "w", "o", "r", "l", "d", "\n", "\n", "2", "\n", "0", "0", ":", "0", "2", ":", "0", "8", ".", "0", "0", "4", " ", "-", "-", ">", " ", "0", "1", ":", "0", "1", ":", "0", "2", ".", "0", "0", "0", "\n", " ", "b", "y", "e">>,
   <<"W", "E", "B", "V", "T", "T", "\n", "\n", "0", "0", ":", "0", "0", ":", "0", "1", ".", "0", "0", "0", " ", "-", "-", ">", " ", "0", "0", ":", "0", "0", ":", "0", "3", ".", "5", "0", "0", "\n", "H", "e", "l", "l", "o", "\n", "0", "0", ":", "0", "0", ":", "0", "4", ".", "0", "0", "0", "-", "-", ">", "0", "0", ":", "0", "0", ":", "0", "5", ".", "0", "0", "0", "\n", "w", "o", "r", "l", "d">>}

(***************************************************************************)
(* The file system below tmpdir().                                         *)
(***************************************************************************)
NoFile == [exists |-> FALSE, content |-> <<>>]

File(c) == [exists |-> TRUE, content |-> c]

AllExts == {<<".">> \o l \o <<".", "v", "t", "t">> : l \in Languages} \cup {<<".", "v", "t", "t">>}

\* join(tmpdir(), `subs_${videoId}_${Date.now()}`) (line 300)
TempBase(id, now) == [videoId |-> id, now |-> now]

Bases == {TempBase(id, t) : id \in VideoIds, t \in Clock}

\* `${tempBase}${ext}` (line 327)
PathOf(base, ext) == <<base, ext>>

Paths == {PathOf(b, e) : b \in Bases, e \in AllExts}

\* what one downloader run may leave under its output base
Written(base) == [{PathOf(base, e) : e \in AllExts} -> {NoFile} \cup {File(c) : c \in FileContents}]

(***************************************************************************)
(* Responses.  The text of a response is JSON.stringify(value, null, 2)    *)
(* of an object, or a template string made of a prefix and a message; the  *)
(* model keeps which of the two it is and the value that was rendered.     *)
(***************************************************************************)
JsonText(value) == [format |-> "json", value |-> value]

PlainText(prefix, message) == [format |-> "plain", prefix |-> prefix, message |-> message]

Envelope(text) == [content |-> <<[type |-> "text", text |-> text]>>]

\* how a handler invocation ends: it returns an envelope or it throws
Returned(envelope) == [thrown |-> FALSE, response |-> <<envelope>>]

Thrown(message) == [thrown |-> TRUE, response |-> <<>>, message |-> message]

Pending == [thrown |-> FALSE, response |-> <<>>]

NoSubsMessage == "No auto-generated subtitles available for this video. YouTube only generates subtitles for videos with sufficient spoken content."

\* the Unavailable response without the catalog's languages
UnavailableResponse_NoLanguages(videoId, language, availableSubs) ==
  Returned(Envelope(JsonText(
    [videoId |-> videoId,
     language |-> language,
     available |-> FALSE,
     message |-> NoSubsMessage,
     availableLanguages |-> <<>>])))

\* lines 282-297
UnavailableResponse(videoId, language, availableSubs) ==
  Returned(Envelope(JsonText(
    [videoId |-> videoId,
     language |-> language,
     available |-> FALSE,
     message |-> NoSubsMessage,
     availableLanguages |-> availableSubs.availableLanguages])))

\* lines 376-380: the regenerated content, only for a non-empty transcript
GeneratedVtt(saveToFile, transcript) ==
  IF saveToFile /\ Len(transcript) > 0 THEN generateVTTContent(transcript) ELSE <<>>

\* lines 382-401
AvailableResponse(videoId, language, saveToFile, transcript) ==
  LET result == [videoId |-> videoId,
                 language |-> language,
                 available |-> TRUE,
                 transcript |-> transcript]
      saved  == [videoId |-> videoId,
                 language |-> language,
                 available |-> TRUE,
                 transcript |-> transcript,
                 vttContent |-> GeneratedVtt(saveToFile, transcript),
                 fileName |-> videoId \o <<"_">> \o language \o <<".", "v", "t", "t">>]
  IN  Returned(Envelope(JsonText(IF saveToFile THEN saved ELSE result)))

\* a catch branch that lets the error escape
CatchResponse_Rethrow(message) == Thrown(message)

\* a catch branch that reports the reason as a JSON payload
CatchResponse_Json(message) == Returned(Envelope(JsonText([reason |-> message])))

\* the catch branch, lines 402-411
CatchResponse(message) ==
  Returned(Envelope(PlainText("Error getting subtitles: ", message)))

\* possibleExtensions (line 324)
possibleExtensions(language) == <<<<".">> \o language \o <<".", "v", "t", "t">>, <<".", "e", "n", ".", "v", "t", "t">>, <<".", "v", "t", "t">>>>

\* readFileSync(path) returns a Buffer, and a Buffer is truthy whatever its
\* length: the test of line 329 passes for every file that can be read
ProbeAccepts(file) == file.exists

\* the probe loop, lines 325-334: the candidates probed, in order, up to and
\* including the first accepted one
RECURSIVE ProbedFrom(_, _, _, _)
ProbedFrom(files, base, exts, i) ==
  IF i > Len(exts) THEN <<>>
  ELSE IF ProbeAccepts(files[PathOf(base, exts[i])]) THEN <<PathOf(base, exts[i])>>
  ELSE <<PathOf(base, exts[i])>> \o ProbedFrom(files, base, exts, i + 1)

\* vttFile after the loop: the accepted candidate, or none ('' in the code)
Resolved(files, probed) ==
  IF probed # <<>> /\ ProbeAccepts(files[probed[Len(probed)]])
    THEN <<probed[Len(probed)]>>
    ELSE <<>>

(***************************************************************************)
(* State of one get_subtitles invocation.                                  *)
(***************************************************************************)
VARIABLES
  pc,             \* where the invocation stands
  request,        \* the arguments of the tool call
  videoId,        \* parameters of getSubtitles
  language,
  saveToFile,
  availableSubs,  \* the catalog checkSubtitlesAvailability resolved with
  listerExit,     \* how the lister ended: "none", "zero", "nonzero", "error"
  downloaderExit, \* how the downloader ended, likewise
  tempBase,
  fs,             \* the files below tmpdir()
  vttFile,        \* the resolved artifact: <<>> or <<path>>
  vttContent,
  ops,            \* the external effects of the invocation, in order
  reply           \* how the invocation ended

\* state of the catalog scan taken one line at a time
VARIABLES catCode, catLanguage, catLines, catIdx, catScan, catResult

\* state of the parse/serialize round trip
VARIABLES rtInput, rtDoc, rtTranscripts, rtPhase

\* state of one timestamp conversion: the stamp and <<>> or <<its value>>
VARIABLES tcTime, tcSeconds

\* state of the invocations in flight at the same time
VARIABLES
  calls,          \* per invocation: where it stands, its parameters and locals
  disk,           \* the files below tmpdir(), shared by the invocations
  owner,          \* per path, the invocation whose downloader wrote the file
  clock           \* the value Date.now() returns

orchVars == <<pc, request, videoId, language, saveToFile, availableSubs, listerExit,
              downloaderExit, tempBase, fs, vttFile, vttContent, ops, reply>>

catVars == <<catCode, catLanguage, catLines, catIdx, catScan, catResult>>

rtVars == <<rtInput, rtDoc, rtTranscripts, rtPhase>>

tcVars == <<tcTime, tcSeconds>>

ccVars == <<calls, disk, owner, clock>>

vars == <<orchVars, catVars, rtVars, tcVars, ccVars>>

NoRequest == [hasArgs |-> FALSE, videoId |-> <<>>, language |-> Undefined, saveToFile |-> FALSE]

Requests ==
  {NoRequest} \cup
  [hasArgs : {TRUE}, videoId : VideoIds, language : Languages \cup {Undefined},
   saveToFile : BOOLEAN]

NoCatalog == [hasSubtitles |-> FALSE, availableLanguages |-> <<>>]

Op(name, path, ok) == [op |-> name, path |-> path, ok |-> ok]

OrchInit ==
  /\ pc = "idle"
  /\ request = NoRequest
  /\ videoId = <<>>
  /\ language = <<>>
  /\ saveToFile = FALSE
  /\ availableSubs = NoCatalog
  /\ listerExit = "none"
  /\ downloaderExit = "none"
  /\ tempBase = <<>>
  /\ fs = [p \in Paths |-> NoFile]
  /\ vttFile = <<>>
  /\ vttContent = <<>>
  /\ ops = <<>>
  /\ reply = Pending

CatIdle ==
  /\ catCode = 0
  /\ catLanguage = <<>>
  /\ catLines = <<>>
  /\ catIdx = 0
  /\ catScan = ScanStart
  /\ catResult = <<>>

RtIdle ==
  /\ rtInput = <<>>
  /\ rtDoc = <<>>
  /\ rtTranscripts = <<>>
  /\ rtPhase = "idle"

TcIdle ==
  /\ tcTime = <<>>
  /\ tcSeconds = <<>>

\* the invocations of the model that run at the same time
Calls == {1, 2}

ConcVideoIds == {<<"a", "b", "c">>, <<"x", "y", "z">>}

\* values of Date.now() while the invocations run
ConcClock == {1, 2}

ConcBases == {TempBase(id, t) : id \in ConcVideoIds, t \in ConcClock}

ConcPaths == {PathOf(b, e) : b \in ConcBases, e \in AllExts}

\* an invocation that has not been called
IdleCall ==
  [pc |-> "idle", videoId |-> <<>>, language |-> <<>>, tempBase |-> <<>>,
   wrote |-> FALSE, vttFile |-> <<>>, source |-> 0, reply |-> Pending]

CcIdle ==
  /\ calls = [c \in Calls |-> IdleCall]
  /\ disk = [p \in ConcPaths |-> NoFile]
  /\ owner = [p \in ConcPaths |-> 0]
  /\ clock = 1

Init == OrchInit /\ CatIdle /\ RtIdle /\ TcIdle /\ CcIdle

\* the invocation ends with the given completion
Finish(completion) ==
  /\ pc' = "done"
  /\ reply' = completion

\* the CallToolRequestSchema handler for name = "get_subtitles" (lines 173-186)
\* up to the first await of getSubtitles (line 280), which spawns the lister
CallTool(req) ==
  /\ pc = "idle"
  /\ request' = req
  /\ IF ~req.hasArgs
       THEN /\ Finish(Thrown("Arguments are required"))
            /\ UNCHANGED <<videoId, language, saveToFile, ops>>
       ELSE /\ videoId' = req.videoId
            /\ language' = IF req.language = Undefined THEN <<"e", "n">> ELSE req.language
            /\ saveToFile' = req.saveToFile
            /\ ops' = Append(ops, Op("spawn-lister", <<>>, TRUE))
            /\ pc' = "listing"
            /\ UNCHANGED reply
  /\ UNCHANGED <<availableSubs, listerExit, downloaderExit, tempBase, fs, vttFile, vttContent>>
  /\ UNCHANGED <<catVars, rtVars, tcVars, ccVars>>

\* getSubtitles from the resolved catalog to its next await (lines 280-320):
\* the Unavailable response, or the spawn of the downloader
AfterCatalog(catalog, now) ==
  /\ availableSubs' = catalog
  /\ IF ~catalog.hasSubtitles
       THEN /\ Finish(UnavailableResponse(videoId, language, catalog))
            /\ UNCHANGED <<tempBase, ops>>
       ELSE /\ tempBase' = TempBase(videoId, now)
            /\ ops' = Append(ops, Op("spawn-downloader", <<>>, TRUE))
            /\ pc' = "downloading"
            /\ UNCHANGED reply
  /\ UNCHANGED <<request, videoId, language, saveToFile, downloaderExit, fs, vttFile, vttContent>>
  /\ UNCHANGED <<catVars, rtVars, tcVars, ccVars>>

\* the lister's 'close' event
ListerClose(code, output, now) ==
  /\ pc = "listing"
  /\ listerExit' = IF code = 0 THEN "zero" ELSE "nonzero"
  /\ AfterCatalog(OnListerClose(code, output, language), now)

\* the lister's 'error' event
ListerError(now) ==
  /\ pc = "listing"
  /\ listerExit' = "error"
  /\ AfterCatalog(OnListerError, now)

\* the downloader's 'close' event (lines 311-317); the run may have left
\* files under its output base
DownloaderClose(code, written) ==
  /\ pc = "downloading"
  /\ downloaderExit' = IF code = 0 THEN "zero" ELSE "nonzero"
  /\ fs' = [p \in Paths |-> IF p \in DOMAIN written THEN written[p] ELSE fs[p]]
  /\ IF code = 0
       THEN pc' = "resolving" /\ UNCHANGED reply
       ELSE Finish(CatchResponse(<<"yt-dlp failed with code ", code>>))
  /\ UNCHANGED <<request, videoId, language, saveToFile, availableSubs, listerExit,
                 tempBase, vttFile, vttContent, ops>>
  /\ UNCHANGED <<catVars, rtVars, tcVars, ccVars>>

\* the downloader's 'error' event (line 319)
DownloaderError ==
  /\ pc = "downloading"
  /\ downloaderExit' = "error"
  /\ Finish(CatchResponse(<<"spawn yt-dlp ENOENT">>))
  /\ UNCHANGED <<request, videoId, language, saveToFile, availableSubs, listerExit,
                 tempBase, fs, vttFile, vttContent, ops>>
  /\ UNCHANGED <<catVars, rtVars, tcVars, ccVars>>

\* the probe loop and the test after it (lines 324-338)
ResolveArtifact ==
  /\ pc = "resolving"
  /\ LET probed == ProbedFrom(fs, tempBase, possibleExtensions(language), 1)
         found  == Resolved(fs, probed)
     IN  /\ ops' = ops \o [i \in 1..Len(probed) |-> Op("probe", probed[i], fs[probed[i]].exists)]
         /\ vttFile' = found
         /\ IF found = <<>>
              THEN Finish(CatchResponse(<<"Subtitle file not found after download (tried base: ", tempBase, ")">>))
              ELSE pc' = "reading" /\ UNCHANGED reply
  /\ UNCHANGED <<request, videoId, language, saveToFile, availableSubs, listerExit, downloaderExit,
                 tempBase, fs, vttContent>>
  /\ UNCHANGED <<catVars, rtVars, tcVars, ccVars>>

\* readFileSync(vttFile, 'utf-8') (line 340); the read may fail
ReadArtifact(ok) ==
  /\ pc = "reading"
  /\ ops' = Append(ops, Op("read", vttFile[1], ok))
  /\ IF ok
       THEN /\ vttContent' = fs[vttFile[1]].content
            /\ pc' = "unlinking"
            /\ UNCHANGED reply
       ELSE /\ Finish(CatchResponse(<<"EIO: i/o error, read">>))
            /\ UNCHANGED vttContent
  /\ UNCHANGED <<request, videoId, language, saveToFile, availableSubs, listerExit, downloaderExit,
                 tempBase, fs, vttFile>>
  /\ UNCHANGED <<catVars, rtVars, tcVars, ccVars>>

\* an unlink that leaves the file in place
AfterUnlink_Keep(files, path) == files

\* the files after a successful unlinkSync(path)
AfterUnlink(files, path) == [files EXCEPT ![path] = NoFile]

\* unlinkSync(vttFile) (line 341); the delete may fail
UnlinkArtifact(ok) ==
  /\ pc = "unlinking"
  /\ ops' = Append(ops, Op("unlink", vttFile[1], ok))
  /\ IF ok
       THEN /\ fs' = AfterUnlink(fs, vttFile[1])
            /\ pc' = "parsing"
            /\ UNCHANGED reply
       ELSE /\ Finish(CatchResponse(<<"EPERM: operation not permitted, unlink">>))
            /\ UNCHANGED fs
  /\ UNCHANGED <<request, videoId, language, saveToFile, availableSubs, listerExit, downloaderExit,
                 tempBase, vttFile, vttContent>>
  /\ UNCHANGED <<catVars, rtVars, tcVars, ccVars>>

\* the parse and the response (lines 343-401)
ParseAndRespond ==
  /\ pc = "parsing"
  /\ LET st == ParseVTT(vttContent)
     IN  IF st.thrown
           THEN Finish(CatchResponse(<<"Cannot read properties of undefined (reading 'split')">>))
           ELSE Finish(AvailableResponse(videoId, language, saveToFile, st.transcript))
  /\ UNCHANGED <<request, videoId, language, saveToFile, availableSubs, listerExit, downloaderExit,
                 tempBase, fs, vttFile, vttContent, ops>>
  /\ UNCHANGED <<catVars, rtVars, tcVars, ccVars>>

Next ==
  \/ \E req \in Requests : CallTool(req)
  \/ \E code \in ExitCodes, output \in Listings, now \in Clock :
       ListerClose(code, output, now)
  \/ \E now \in Clock : ListerError(now)
  \/ \E code \in ExitCodes, written \in Written(tempBase) : DownloaderClose(code, written)
  \/ DownloaderError
  \/ ResolveArtifact
  \/ \E ok \in BOOLEAN : ReadArtifact(ok)
  \/ \E ok \in BOOLEAN : UnlinkArtifact(ok)
  \/ ParseAndRespond

Spec == Init /\ [][Next]_vars

(***************************************************************************)
(* The catalog scan of the 'close' handler taken one line at a time.       *)
(***************************************************************************)
ScanListings == {JoinLines(ls) : ls \in SeqsUpTo(CatLines, MaxScanLines)}

CatInit ==
  /\ catCode \in ExitCodes
  /\ catLanguage \in Languages
  /\ catLines \in {Split(output, <<NL>>) : output \in ScanListings}
  /\ catIdx = 1
  /\ catScan = ScanStart
  /\ catResult = <<>>

\* one iteration of the loop of lines 440-468
CatScanLine ==
  /\ catResult = <<>>
  /\ catCode = 0
  /\ catIdx <= Len(catLines)
  /\ ~catScan.broke
  /\ catScan' = ScanLine(catScan, catLines[catIdx])
  /\ catIdx' = catIdx + 1
  /\ UNCHANGED <<catCode, catLanguage, catLines, catResult>>
  /\ UNCHANGED <<orchVars, rtVars, tcVars, ccVars>>

\* the resolve of lines 470-480, after the loop or on a non-zero exit
CatResolve ==
  /\ catResult = <<>>
  /\ catCode # 0 \/ catIdx > Len(catLines) \/ catScan.broke
  /\ catResult' = <<ResolveCatalog(catCode, catScan.availableLanguages, catLanguage)>>
  /\ UNCHANGED <<catCode, catLanguage, catLines, catIdx, catScan>>
  /\ UNCHANGED <<orchVars, rtVars, tcVars, ccVars>>

CatNext == CatScanLine \/ CatResolve

InitCatalog == OrchInit /\ CatInit /\ RtIdle /\ TcIdle /\ CcIdle

SpecCatalog == InitCatalog /\ [][CatNext]_vars

(***************************************************************************)
(* Parse and serialize in alternation, starting from a payload.            *)
(***************************************************************************)
VttLines ==
  {<<"W", "E", "B", "V", "T", "T">>,
   <<>>,
   <<"1">>,
   <<"0", "0", ":", "0", "0", ":", "0", "1", ".", "0", "0", "0", " ", "-", "-", ">", " ", "0", "0", ":", "0", "0", ":", "0", "3", ".", "5", "0", "0">>,
   <<"0", "0", ":", "0", "2", ":", "0", "8", ".", "0", "0", "4", " ", "-", "-", ">", " ", "0", "0", ":", "0", "2", ":", "0", "9", ".", "0", "0", "0">>,
   <<"0", "0", ":", "0", "0", ":", "0", "4", ".", "0", "0", "0", "-", "-", ">", "0", "0", ":", "0", "0", ":", "0", "5", ".", "0", "0", "0">>,
   <<"H", "e", "l", "l", "o", " ", "w", "o", "r", "l", "d">>,
   <<" ", "W", "E", "B", "V", "T", "T", " ", "x">>}

VttPayloads == {JoinLines(ls) : ls \in SeqsUpTo(VttLines, MaxVttLines)}

RtInit ==
  /\ rtInput \in VttPayloads
  /\ rtDoc = rtInput
  /\ rtTranscripts = <<>>
  /\ rtPhase = "parse"

\* the line scanner applied to the current document
RtParse ==
  /\ rtPhase = "parse"
  /\ Len(rtTranscripts) < MaxRounds
  /\ LET st == ParseVTT(rtDoc)
     IN  IF st.thrown
           THEN rtPhase' = "thrown" /\ UNCHANGED rtTranscripts
           ELSE rtPhase' = "serialize" /\ rtTranscripts' = Append(rtTranscripts, st.transcript)
  /\ UNCHANGED <<rtInput, rtDoc>>
  /\ UNCHANGED <<orchVars, catVars, tcVars, ccVars>>

\* generateVTTContent applied to the last transcript
RtSerialize ==
  /\ rtPhase = "serialize"
  /\ Len(rtTranscripts) < MaxRounds
  /\ rtDoc' = generateVTTContent(rtTranscripts[Len(rtTranscripts)])
  /\ rtPhase' = "parse"
  /\ UNCHANGED <<rtInput, rtTranscripts>>
  /\ UNCHANGED <<orchVars, catVars, tcVars, ccVars>>

RtNext == RtParse \/ RtSerialize

InitRoundTrip == OrchInit /\ CatIdle /\ RtInit /\ TcIdle /\ CcIdle

SpecRoundTrip == InitRoundTrip /\ [][RtNext]_vars

(***************************************************************************)
(* timeToSeconds applied to one timestamp.                                 *)
(***************************************************************************)
HourFields == {<<"0", "0">>, <<"0", "1">>, <<"0", "2">>, <<"1", "0">>}

MinuteFields == {<<"0", "0">>, <<"0", "1">>, <<"3", "0">>, <<"5", "9">>}

SecondFields == {<<"0", "0", ".", "0", "0", "0">>, <<"0", "1", ".", "5", "0", "0">>, <<"3", "0", ".", "5", "0", "0">>, <<"5", "9", ".", "9", "9", "9">>}

\* a stamp of the fields, joined by ':'
Stamp(fields) ==
  IF Len(fields) = 2 THEN fields[1] \o <<":">> \o fields[2]
  ELSE fields[1] \o <<":">> \o fields[2] \o <<":">> \o fields[3]

\* stamps of two and three fields
Stamps ==
  {Stamp(<<m, s>>) : m \in MinuteFields, s \in SecondFields}
    \cup {Stamp(<<h, m, s>>) : h \in HourFields, m \in MinuteFields, s \in SecondFields}

TcInit ==
  /\ tcTime \in Stamps
  /\ tcSeconds = <<>>

\* one call of timeToSeconds (lines 664-670)
TcConvert ==
  /\ tcSeconds = <<>>
  /\ tcSeconds' = <<timeToSeconds(tcTime)>>
  /\ UNCHANGED tcTime
  /\ UNCHANGED <<orchVars, catVars, rtVars, ccVars>>

TcNext == TcConvert

InitCodec == OrchInit /\ CatIdle /\ RtIdle /\ TcInit /\ CcIdle

SpecCodec == InitCodec /\ [][TcNext]_vars

(***************************************************************************)
(* Several get_subtitles invocations in flight at the same time.  An       *)
(* invocation runs without interruption between two awaits: from the call  *)
(* to the spawn of the lister, from the lister's event to the spawn of the *)
(* downloader, and from the downloader's event to the return.  The         *)
(* downloader processes write their files while they run.                  *)
(***************************************************************************)
ConcRequests ==
  [hasArgs : {TRUE}, videoId : ConcVideoIds, language : Languages \cup {Undefined},
   saveToFile : {FALSE}]

\* what the lister prints in these invocations
ConcListings ==
  {JoinLines(<<<<"A", "v", "a", "i", "l", "a", "b", "l", "e", " ", "a", "u", "t", "o", "m", "a", "t", "i", "c", " ", "c", "a", "p", "t", "i", "o", "n", "s">>, <<"e", "n", " ", " ", " ", " ", "E", "n", "g", "l", "i", "s", "h", " ", " ", " ", " ", "v", "t", "t", ",", " ", "s", "r", "t">>,
               <<"f", "r", " ", " ", "N", "a", "m", "e", ":", " ", "F", "r", "e", "n", "c", "h">>>>),
   <<>>}

\* what the downloader writes for a language
ConcContent(lang) ==
  IF lang = <<"e", "n">> THEN <<"0", "0", ":", "0", "0", ":", "0", "1", ".", "0", "0", "0", " ", "-", "-", ">", " ", "0", "0", ":", "0", "0", ":", "0", "3", ".", "5", "0", "0", "\n", "H", "e", "l", "l", "o">>
  ELSE <<"0", "0", ":", "0", "0", ":", "0", "1", ".", "0", "0", "0", " ", "-", "-", ">", " ", "0", "0", ":", "0", "0", ":", "0", "3", ".", "5", "0", "0", "\n", "B", "o", "n", "j", "o", "u", "r">>

\* the invocation c ends with the given completion
CcFinish(c, completion) == [calls[c] EXCEPT !.pc = "done", !.reply = completion]

\* the handler up to the first await of getSubtitles (lines 173-186, 280)
CcCallTool(c, req) ==
  /\ calls[c].pc = "idle"
  /\ calls' = [calls EXCEPT ![c] =
       [@ EXCEPT !.pc = "listing",
                 !.videoId = req.videoId,
                 !.language = IF req.language = Undefined THEN <<"e", "n">> ELSE req.language]]
  /\ UNCHANGED <<disk, owner, clock>>
  /\ UNCHANGED <<orchVars, catVars, rtVars, tcVars>>

\* getSubtitles of invocation c from the resolved catalog to its next await
\* (lines 280-320); Date.now() is read for the temp base
CcAfterCatalog(c, catalog) ==
  /\ calls' = [calls EXCEPT ![c] =
       IF ~catalog.hasSubtitles
         THEN CcFinish(c, UnavailableResponse(calls[c].videoId, calls[c].language, catalog))
         ELSE [@ EXCEPT !.pc = "downloading",
                        !.tempBase = <<TempBase(calls[c].videoId, clock)>>]]
  /\ UNCHANGED <<disk, owner, clock>>
  /\ UNCHANGED <<orchVars, catVars, rtVars, tcVars>>

\* the 'close' event of the lister of invocation c
CcListerClose(c, code, output) ==
  /\ calls[c].pc = "listing"
  /\ CcAfterCatalog(c, OnListerClose(code, output, calls[c].language))

\* the 'error' event of the lister of invocation c
CcListerError(c) ==
  /\ calls[c].pc = "listing"
  /\ CcAfterCatalog(c, OnListerError)

\* the downloader process of invocation c writes its subtitle file under
\* the output base it was given (lines 302-309)
CcDownloaderWrite(c) ==
  /\ calls[c].pc = "downloading"
  /\ ~calls[c].wrote
  /\ LET path == PathOf(calls[c].tempBase[1], <<".">> \o calls[c].language \o <<".", "v", "t", "t">>)
     IN  /\ disk' = [disk EXCEPT ![path] = File(ConcContent(calls[c].language))]
         /\ owner' = [owner EXCEPT ![path] = c]
  /\ calls' = [calls EXCEPT ![c].wrote = TRUE]
  /\ UNCHANGED clock
  /\ UNCHANGED <<orchVars, catVars, rtVars, tcVars>>

\* lines 322-401 for invocation c: probe, read, delete, parse and respond
CcAfterDownload(c, readOk, unlinkOk) ==
  LET me     == calls[c]
      probed == ProbedFrom(disk, me.tempBase[1], possibleExtensions(me.language), 1)
      found  == Resolved(disk, probed)
      st     == ParseVTT(disk[found[1]].content)
  IN  IF found = <<>>
        THEN /\ calls' = [calls EXCEPT ![c] = CcFinish(c,
                   CatchResponse(<<"Subtitle file not found after download (tried base: ",
                                   me.tempBase[1], ")">>))]
             /\ UNCHANGED <<disk, owner>>
      ELSE IF ~readOk
        THEN /\ calls' = [calls EXCEPT ![c] =
                   [CcFinish(c, CatchResponse(<<"EIO: i/o error, read">>))
                      EXCEPT !.vttFile = found]]
             /\ UNCHANGED <<disk, owner>>
      ELSE IF ~unlinkOk
        THEN /\ calls' = [calls EXCEPT ![c] =
                   [CcFinish(c, CatchResponse(<<"EPERM: operation not permitted, unlink">>))
                      EXCEPT !.vttFile = found, !.source = owner[found[1]]]]
             /\ UNCHANGED <<disk, owner>>
      ELSE /\ calls' = [calls EXCEPT ![c] =
                 [CcFinish(c,
                    IF st.thrown
                      THEN CatchResponse(<<"Cannot read properties of undefined (reading 'split')">>)
                      ELSE AvailableResponse(me.videoId, me.language, FALSE, st.transcript))
                    EXCEPT !.vttFile = found, !.source = owner[found[1]]]]
           /\ disk' = AfterUnlink(disk, found[1])
           /\ owner' = [owner EXCEPT ![found[1]] = 0]

\* the 'close' event of the downloader of invocation c (lines 311-317) and
\* the rest of getSubtitles, which runs without another await
CcDownloaderClose(c, code, readOk, unlinkOk) ==
  /\ calls[c].pc = "downloading"
  /\ IF code = 0
       THEN CcAfterDownload(c, readOk, unlinkOk)
       ELSE /\ calls' = [calls EXCEPT ![c] =
                  CcFinish(c, CatchResponse(<<"yt-dlp failed with code ", code>>))]
            /\ UNCHANGED <<disk, owner>>
  /\ UNCHANGED clock
  /\ UNCHANGED <<orchVars, catVars, rtVars, tcVars>>

\* the 'error' event of the downloader of invocation c (line 319)
CcDownloaderError(c) ==
  /\ calls[c].pc = "downloading"
  /\ ~calls[c].wrote
  /\ calls' = [calls EXCEPT ![c] = CcFinish(c, CatchResponse(<<"spawn yt-dlp ENOENT">>))]
  /\ UNCHANGED <<disk, owner, clock>>
  /\ UNCHANGED <<orchVars, catVars, rtVars, tcVars>>

\* a millisecond passes
CcTick ==
  /\ clock + 1 \in ConcClock
  /\ clock' = clock + 1
  /\ UNCHANGED <<calls, disk, owner>>
  /\ UNCHANGED <<orchVars, catVars, rtVars, tcVars>>

ConcNext ==
  \/ \E c \in Calls, req \in ConcRequests : CcCallTool(c, req)
  \/ \E c \in Calls, code \in ExitCodes, output \in ConcListings : CcListerClose(c, code, output)
  \/ \E c \in Calls : CcListerError(c)
  \/ \E c \in Calls : CcDownloaderWrite(c)
  \/ \E c \in Calls, code \in ExitCodes, readOk \in BOOLEAN, unlinkOk \in BOOLEAN :
       CcDownloaderClose(c, code, readOk, unlinkOk)
  \/ \E c \in Calls : CcDownloaderError(c)
  \/ CcTick

SpecConcurrent == Init /\ [][ConcNext]_vars

(***************************************************************************)
(* Properties.                                                             *)
(***************************************************************************)
\* the text of the response of a finished invocation
ReplyText == reply.response[1].content[1].text

Answered == pc = "done" /\ request.hasArgs /\ Len(reply.response) = 1

IsUnavailable == ReplyText.format = "json" /\ ReplyText.value.available = FALSE

IsAvailable == ReplyText.format = "json" /\ ReplyText.value.available = TRUE

IsFailed ==
  /\ ReplyText.format = "plain"
  /\ ReplyText.prefix = "Error getting subtitles: "
  /\ ReplyText.message # <<>>

LastOp == ops[Len(ops)]

\* C1: an invocation that was given an arguments object never throws, and
\* once it has ended it has returned one response envelope that is exactly
\* one of Unavailable, Available and Failed-with-reason, whatever the lister,
\* the downloader, the probe, the read, the delete and the parse did.
C1_AlwaysReturns ==
  request.hasArgs =>
    /\ ~reply.thrown
    /\ pc = "done" =>
         /\ Len(reply.response) = 1
         /\ Len(reply.response[1].content) = 1
         /\ Cardinality({k \in {"unavailable", "available", "failed"} :
              CASE k = "unavailable" -> IsUnavailable
                [] k = "available" -> IsAvailable
                [] k = "failed" -> IsFailed}) = 1

\* a call that ended in Failed after its delete of the artifact failed
C1_Witness ==
  /\ Answered
  /\ IsFailed
  /\ LastOp.op = "unlink"
  /\ ~LastOp.ok

\* the call ended in the catch branch: the downloader failed, no candidate
\* was accepted, the read or the delete failed, or the parse raised
FailurePath ==
  \/ downloaderExit \in {"nonzero", "error"}
  \/ downloaderExit = "zero" /\ vttFile = <<>>
  \/ LastOp.op \in {"read", "unlink"} /\ ~LastOp.ok
  \/ LastOp.op = "unlink" /\ LastOp.ok /\ ParseVTT(vttContent).thrown

UnavailableFields == {"videoId", "language", "available", "message", "availableLanguages"}

AvailableFields == {"videoId", "language", "available", "transcript"}

ArtifactFields == {"vttContent", "fileName"}

\* C2 as stated: the text of every response is a JSON payload, failures
\* included.
C2_AlwaysJson == Answered => ReplyText.format = "json"

\* C2 amended: the text of a response is a JSON payload only for the
\* Unavailable and Available results; a failure is reported as the plain
\* text "Error getting subtitles: " followed by the reason, which is no JSON.
C2_JsonUnlessFailed ==
  Answered =>
    IF listerExit # "none" /\ availableSubs.hasSubtitles /\ FailurePath
      THEN /\ IsFailed
           /\ downloaderExit = "nonzero" => ReplyText.message[1] = "yt-dlp failed with code "
           /\ (downloaderExit = "zero" /\ vttFile = <<>>) =>
                ReplyText.message[1] = "Subtitle file not found after download (tried base: "
      ELSE /\ ReplyText.format = "json"
           /\ \/ IsUnavailable /\ DOMAIN ReplyText.value = UnavailableFields
              \/ /\ IsAvailable
                 /\ DOMAIN ReplyText.value \in {AvailableFields, AvailableFields \cup ArtifactFields}

\* a call whose downloader exited with a non-zero status and that answered
\* with the plain error text
C2_Witness ==
  /\ Answered
  /\ downloaderExit = "nonzero"
  /\ ReplyText.format = "plain"

\* the effects of the invocation after the spawn of the lister
LaterOps == {i \in 1..Len(ops) : ops[i].op # "spawn-lister"}

\* C3: when the requested language is not in the catalog the call returns
\* Unavailable, with available = false, the catalog's languages and the
\* message that no auto-generated subtitles exist, and it stops there: no
\* downloader is launched and no temp file is named, probed, read or deleted.
C3_UnavailableStops ==
  (listerExit # "none" /\ ~Member(availableSubs.availableLanguages, language)) =>
    /\ Answered
    /\ IsUnavailable
    /\ ReplyText.value.availableLanguages = availableSubs.availableLanguages
    /\ ReplyText.value.message = NoSubsMessage
    /\ ReplyText.value.language = language
    /\ LaterOps = {}
    /\ tempBase = <<>>
    /\ downloaderExit = "none"
    /\ \A p \in Paths : ~fs[p].exists

\* "fr" was requested and the catalog lists only "en"
C3_Witness ==
  /\ Answered
  /\ listerExit = "zero"
  /\ language = <<"f", "r">>
  /\ availableSubs.availableLanguages = <<<<"e", "n">>>>
  /\ IsUnavailable

\* C5: a lister that exits with a non-zero status or fails to launch gives
\* the catalog hasSubtitles = false with no languages, whatever it printed,
\* and the call answers Unavailable; a Failed answer is only ever given
\* after a lister that exited with status 0 and a catalog that matched.
C5_ListerFailureIsUnavailable ==
  /\ listerExit \in {"nonzero", "error"} =>
       /\ availableSubs = [hasSubtitles |-> FALSE, availableLanguages |-> <<>>]
       /\ Answered
       /\ IsUnavailable
       /\ ReplyText.value.availableLanguages = <<>>
       /\ LaterOps = {}
  /\ (Answered /\ IsFailed) => (listerExit = "zero" /\ availableSubs.hasSubtitles)

\* a call whose lister exited with a non-zero status
C5_Witness ==
  /\ Answered
  /\ listerExit = "nonzero"
  /\ IsUnavailable

\* the listing of the claim's example, line by line
ExampleListing ==
  <<<<"A", "v", "a", "i", "l", "a", "b", "l", "e", " ", "s", "u", "b", "t", "i", "t", "l", "e", "s">>,
    <<"e", "n", " ", " ", " ", " ", "E", "n", "g", "l", "i", "s", "h", " ", " ", " ", " ", "v", "t", "t", ",", " ", "s", "r", "t">>,
    <<"A", "v", "a", "i", "l", "a", "b", "l", "e", " ", "a", "u", "t", "o", "m", "a", "t", "i", "c", " ", "c", "a", "p", "t", "i", "o", "n", "s">>,
    <<"e", "n", "-", "U", "S", " ", " ", " ", "E", "n", "g", "l", "i", "s", "h", " ", "(", "a", "u", "t", "o", ")">>>>

NoSection(lines) ==
  \A i \in 1..Len(lines) :
    /\ ~Includes(lines[i], <<"A", "v", "a", "i", "l", "a", "b", "l", "e", " ", "s", "u", "b", "t", "i", "t", "l", "e", "s">>)
    /\ ~Includes(lines[i], <<"A", "v", "a", "i", "l", "a", "b", "l", "e", " ", "a", "u", "t", "o", "m", "a", "t", "i", "c", " ", "c", "a", "p", "t", "i", "o", "n", "s">>)

\* C4 as stated: for the example listing and the request "en" the catalog
\* matches and lists both "en" and "en-US"; for a listing with neither
\* section the catalog is empty and does not match.
C4_CatalogExample ==
  (catResult # <<>> /\ catCode = 0) =>
    /\ (catLines = ExampleListing /\ catLanguage = <<"e", "n">>) =>
         /\ catResult[1].hasSubtitles
         /\ Member(catResult[1].availableLanguages, <<"e", "n">>)
         /\ Member(catResult[1].availableLanguages, <<"e", "n", "-", "U", "S">>)
    /\ NoSection(catLines) =>
         /\ catResult[1].availableLanguages = <<>>
         /\ ~catResult[1].hasSubtitles

\* a candidate the claim lets the resolution pick
Qualifies(file) == file.exists /\ file.content # <<>>

RECURSIVE FirstQualifying(_, _, _, _)
FirstQualifying(files, base, exts, i) ==
  IF i > Len(exts) THEN <<>>
  ELSE IF Qualifies(files[PathOf(base, exts[i])]) THEN <<PathOf(base, exts[i])>>
  ELSE FirstQualifying(files, base, exts, i + 1)

\* C6 as stated: the resolved artifact is the first of base + ".{language}.vtt",
\* base + ".en.vtt", base + ".vtt" that exists and is non-empty, and when no
\* candidate qualifies the call ends in Failed.
C6_FirstNonEmptyWins ==
  /\ pc = "reading" =>
       vttFile = FirstQualifying(fs, tempBase, possibleExtensions(language), 1)
  /\ (Answered /\ downloaderExit = "zero" /\ LastOp.op = "probe") =>
       /\ IsFailed
       /\ FirstQualifying(fs, tempBase, possibleExtensions(language), 1) = <<>>

\* the order of the read and the delete in the effects of the invocation
ReadIsFollowedByDelete ==
  /\ (Answered /\ IsAvailable) =>
       (/\ vttFile # <<>>
        /\ ~fs[vttFile[1]].exists
        /\ \E i \in 1..(Len(ops) - 1) :
             /\ ops[i] = Op("read", vttFile[1], TRUE)
             /\ ops[i + 1] = Op("unlink", vttFile[1], TRUE))
  /\ pc = "done" =>
       (\A i \in 1..Len(ops) :
          (ops[i].op = "read" /\ ops[i].ok) =>
            (/\ i < Len(ops)
             /\ ops[i + 1].op = "unlink"
             /\ ops[i + 1].path = ops[i].path))
  /\ \A i \in 1..Len(ops) :
       ops[i].op = "unlink" =>
         (/\ i > 1
          /\ ops[i - 1] = Op("read", ops[i].path, TRUE)
          /\ vttFile = <<ops[i].path>>)

\* C7: an Available answer is given only after the artifact that was read
\* has been deleted; in every ended call a successful read of the artifact
\* is directly followed by a delete attempt on the same path; a delete is
\* only ever attempted on the path just read, and no step other than that
\* delete makes a file disappear.
C7_ReadThenDelete ==
  /\ []ReadIsFollowedByDelete
  /\ [][\A p \in Paths :
          (fs[p].exists /\ ~fs'[p].exists) => ops' = Append(ops, Op("unlink", p, TRUE))]_vars

\* an Available answer while another file of the download is still there
C7_Witness ==
  /\ Answered
  /\ IsAvailable
  /\ \E p \in Paths : p # vttFile[1] /\ fs[p].exists

\* C8 as stated: every cue of a returned transcript has duration =
\* endTime - offset, all three in milliseconds.  The model keeps duration in
\* thousandths of its value, so the claim reads duration / 1000 = endTime -
\* offset.
C8_DurationIsEndMinusStart ==
  (Answered /\ IsAvailable) =>
    \A i \in 1..Len(ReplyText.value.transcript) :
      LET cue == ReplyText.value.transcript[i]
      IN  /\ cue.duration % 1000 = 0
          /\ cue.duration \div 1000 = cue.endTime.ms - cue.offset.ms

\* the digits of a field of a timestamp
TwoDigits(n) == <<DigitChar(n \div 10), DigitChar(n % 10)>>

ThreeDigits(n) == <<DigitChar(n \div 100), DigitChar((n \div 10) % 10), DigitChar(n % 10)>>

\* HH:MM:SS.mmm of a millisecond value, rounded down to the millisecond
HoursStamp(x) ==
  LET whole == Floor(x)
  IN  TwoDigits(whole \div 3600000) \o <<":">> \o TwoDigits((whole \div 60000) % 60) \o <<":">>
        \o TwoDigits((whole \div 1000) % 60) \o <<".">> \o ThreeDigits(whole % 1000)

\* the lines of the artifact the claim describes: the header and a blank
\* line, then per cue its 1-based index, its timing, its trimmed text and
\* a blank line
RECURSIVE CueLines(_, _)
CueLines(transcript, i) ==
  IF i > Len(transcript) THEN <<>>
  ELSE <<<<DigitChar(i)>>,
         HoursStamp(transcript[i].offset) \o <<" ", "-", "-", ">", " ">> \o HoursStamp(transcript[i].endTime),
         Trim(transcript[i].text),
         <<>>>> \o CueLines(transcript, i + 1)

ArtifactLines(transcript) == <<<<"W", "E", "B", "V", "T", "T">>, <<>>>> \o CueLines(transcript, 1) \o <<<<>>>>

RequestedLanguage == IF request.language = Undefined THEN <<"e", "n">> ELSE request.language

ArtifactName == request.videoId \o <<"_">> \o RequestedLanguage \o <<".", "v", "t", "t">>

\* C9 as stated: with saveToFile an Available response carries fileName
\* "{videoId}_{language}.vtt" and as vttContent the header, a blank line and
\* the block of every cue, for every transcript, the empty one included;
\* without saveToFile it carries neither field.
C9_ArtifactForEveryTranscript ==
  (Answered /\ IsAvailable) =>
    IF request.saveToFile
      THEN /\ DOMAIN ReplyText.value = AvailableFields \cup ArtifactFields
           /\ ReplyText.value.fileName = ArtifactName
           /\ Split(ReplyText.value.vttContent, <<NL>>) = ArtifactLines(ReplyText.value.transcript)
      ELSE DOMAIN ReplyText.value = AvailableFields

\* C9 amended: as C9, except that for the empty transcript vttContent is the
\* empty string; the timestamps are the cue's offset and endTime rounded
\* down to the millisecond.
C9_ArtifactForNonEmptyTranscript ==
  (Answered /\ IsAvailable) =>
    IF request.saveToFile
      THEN /\ DOMAIN ReplyText.value = AvailableFields \cup ArtifactFields
           /\ ReplyText.value.fileName = ArtifactName
           /\ IF ReplyText.value.transcript = <<>>
                THEN ReplyText.value.vttContent = <<>>
                ELSE Split(ReplyText.value.vttContent, <<NL>>)
                       = ArtifactLines(ReplyText.value.transcript)
      ELSE DOMAIN ReplyText.value = AvailableFields

\* an Available response with a regenerated artifact of two cues
C9_Witness ==
  /\ Answered
  /\ IsAvailable
  /\ request.saveToFile
  /\ Len(ReplyText.value.transcript) = 2
  /\ Len(ReplyText.value.vttContent) > 8

\* the timing lines of a well-formed payload
WellFormedTimings == {<<"0", "0", ":", "0", "0", ":", "0", "1", ".", "0", "0", "0", " ", "-", "-", ">", " ", "0", "0", ":", "0", "0", ":", "0", "3", ".", "5", "0", "0">>, <<"0", "0", ":", "0", "2", ":", "0", "8", ".", "0", "0", "4", " ", "-", "-", ">", " ", "0", "0", ":", "0", "2", ":", "0", "9", ".", "0", "0", "0">>}

WellFormed(payload) ==
  LET lines == Split(payload, <<NL>>)
  IN  \A i \in 1..Len(lines) : Includes(lines[i], <<"-", "-", ">">>) => lines[i] \in WellFormedTimings

\* C10 as stated: for a well-formed payload x the second and the third
\* parse of the round trip agree, parse(serialize(parse(x))) =
\* parse(serialize(parse(serialize(parse(x))))), cue by cue.
C10_ReparseIsIdempotent ==
  (WellFormed(rtInput) /\ Len(rtTranscripts) >= 3) => rtTranscripts[2] = rtTranscripts[3]

\* the scan the claim describes: a blank line inside a section ends that
\* section only, and the lines after it are scanned as before
SectionScanLine(st, line) ==
  IF ~Includes(line, <<"A", "v", "a", "i", "l", "a", "b", "l", "e", " ", "s", "u", "b", "t", "i", "t", "l", "e", "s">>)
       /\ ~Includes(line, <<"A", "v", "a", "i", "l", "a", "b", "l", "e", " ", "a", "u", "t", "o", "m", "a", "t", "i", "c", " ", "c", "a", "p", "t", "i", "o", "n", "s">>)
       /\ (st.inSubsSection \/ st.inCaptionsSection)
       /\ Trim(line) = <<>>
    THEN [st EXCEPT !.inSubsSection = FALSE, !.inCaptionsSection = FALSE]
    ELSE ScanLine(st, line)

RECURSIVE SectionScanFrom(_, _, _)
SectionScanFrom(st, lines, i) ==
  IF i > Len(lines) THEN st
  ELSE SectionScanFrom(SectionScanLine(st, lines[i]), lines, i + 1)

\* C11 as stated: a blank line met inside a section only ends that section;
\* the catalog holds the accepted tokens of every section of the listing,
\* in encounter order, also of a section that follows a blank line.
C11_BlankLineEndsSectionOnly ==
  (catResult # <<>> /\ catCode = 0) =>
    catResult[1].availableLanguages
      = SectionScanFrom(ScanStart, catLines, 1).availableLanguages

\* the value in thousandths of a second of a stamp whose rightmost field is
\* the seconds, the field before it the minutes and the leftmost of three
\* the hours, a missing leading field counting as 0
FieldsFromRight(time) ==
  LET parts == Split(time, <<":">>)
      n     == Len(parts)
      hours   == IF n >= 3 THEN ParseIntOr0(parts[n - 2]) ELSE 0
      minutes == IF n >= 2 THEN ParseIntOr0(parts[n - 1]) ELSE 0
      seconds == ParseFloatOr0(parts[n])
  IN  (hours * 3600 + minutes * 60) * 1000 + seconds

\* C12 as stated: timeToSeconds takes the rightmost field as seconds, the one
\* before it as minutes and the leftmost of three as hours; a two-field
\* "MM:SS.mmm" is worth MM*60000 + SS.mmm*1000 milliseconds, the value of
\* "00:MM:SS.mmm".
C12_FieldsCountFromRight ==
  tcSeconds # <<>> =>
    /\ tcSeconds[1] = FieldsFromRight(tcTime)
    /\ Len(Split(tcTime, <<":">>)) = 2 =>
         tcSeconds[1] = timeToSeconds(<<"0", "0", ":">> \o tcTime)

\* the lines of a payload the parser treats as timing lines (line 349)
TimingLines(content) ==
  SelectSeq(Split(content, <<NL>>), LAMBDA l : Includes(l, <<"-", "-", ">">>))

\* the artifact was read and deleted, so the call went on to parse it
Parsed == Answered /\ ops # <<>> /\ LastOp.op = "unlink" /\ LastOp.ok

\* C13 as stated: a malformed timing line never aborts the transcript; every
\* line holding "-->", also one without the exact " --> " separator or with
\* a missing or non-numeric field, opens a cue, and the call that parsed the
\* payload returns Available with one cue per such line.
C13_MalformedTimingNeverAborts ==
  Parsed =>
    /\ IsAvailable
    /\ Len(ReplyText.value.transcript) = Len(TimingLines(vttContent))

\* the positions of the timing lines among the lines of a payload
TimingPositions(lines) == {i \in 1..Len(lines) : Includes(lines[i], <<"-", "-", ">">>)}

\* the k-th smallest element of a set of positions
RECURSIVE KthPosition(_, _)
KthPosition(S, k) ==
  IF k = 1 THEN SetMin(S) ELSE KthPosition(S \ {SetMin(S)}, k - 1)

\* the text lines of lines[from..to], each followed by a space
RECURSIVE TextBetween(_, _, _)
TextBetween(lines, from, to) ==
  IF from > to THEN <<>>
  ELSE (IF IsTextLine(lines[from]) THEN lines[from] \o <<" ">> ELSE <<>>)
         \o TextBetween(lines, from + 1, to)

\* the cue of the k-th timing line: its times, and the text lines up to the
\* next timing line or the end of the payload
ExpectedCue(lines, k) ==
  LET S      == TimingPositions(lines)
      p      == KthPosition(S, k)
      q      == IF k < Cardinality(S) THEN KthPosition(S, k + 1) ELSE Len(lines) + 1
      fields == Split(lines[p], <<" ", "-", "-", ">", " ">>)
  IN  [NewCue(At(fields, 1), At(fields, 2)) EXCEPT !.text = TextBetween(lines, p + 1, q - 1)]

\* the first parse of the payload has run
FirstParseDone == rtPhase = "thrown" \/ rtTranscripts # <<>>

\* the transcript holds one cue per timing line of the payload, in order
OneCuePerTimingLine(transcript, lines) ==
  /\ Len(transcript) = Cardinality(TimingPositions(lines))
  /\ \A k \in 1..Len(transcript) : transcript[k] = ExpectedCue(lines, k)

\* C14 as stated: the parser emits exactly one cue per timing line, in
\* document order; an open cue is flushed at the end of the input, a payload
\* without a timing line gives the empty transcript and no error, and only
\* text lines after a timing line (not blank, not the WEBVTT header, not a
\* pure-integer index line) are added, each to the cue open at that point.
C14_OneCuePerTimingLine ==
  FirstParseDone =>
    /\ rtPhase # "thrown"
    /\ rtTranscripts # <<>>
    /\ OneCuePerTimingLine(rtTranscripts[1], Split(rtInput, <<NL>>))

\* the transcript a call returns for the payload its own downloader writes
OwnTranscript(c) == ParseVTT(ConcContent(calls[c].language)).transcript

\* C15 as stated: in every interleaving of the invocations in flight, each
\* one resolves, reads and deletes only a file its own downloader run wrote,
\* and an Available response carries the transcript of the call's own
\* download, never the one produced for another call.
C15_OwnArtifactOnly ==
  \A c \in Calls :
    /\ calls[c].vttFile # <<>> => calls[c].source \in {0, c}
    /\ (calls[c].pc = "done" /\ calls[c].source # 0 /\ calls[c].reply.response # <<>>
          /\ calls[c].reply.response[1].content[1].text.format = "json"
          /\ calls[c].reply.response[1].content[1].text.value.available)
         => calls[c].reply.response[1].content[1].text.value.transcript = OwnTranscript(c)

====
